---- MODULE Spec2Model ----
(***************************************************************************)
(* prompt-sudo-discord: the approval wait-and-decide state machine of      *)
(* main.go.  The main goroutine walks through setup, posts the request,    *)
(* and selects over resultCh, ctx.Done() and sigCh; the gateway runs the   *)
(* interaction handler in its own goroutines; the timer and the operating  *)
(* system's signals are the two other asynchronous sources.                *)
(***************************************************************************)
EXTENDS Integers, Sequences, FiniteSets, TLC

(* ------------------------------ bounds --------------------------------- *)

\* handler goroutines that have passed the filter and not yet sent
MaxInflight == 2
\* largest timeout value (seconds) tried for --timeout and timeout_seconds
MaxTimeout == 2

(* --------------------------- program constants ------------------------- *)

defaultTimeout == 300

buttonApproveID == "psd_approve"
buttonDenyID == "psd_deny"

ApprovalPending == 0
ApprovalApproved == 1
ApprovalDenied == 2
ApprovalTimeout == 3
ApprovalError == 4

\* config.ApproverIDs as loaded at startup (a non-empty list, read-only)
ApproverIDs == <<"111", "222", "333">>

(* --------------------------- the environment --------------------------- *)

\* the id Discord assigns to the posted request, and the id of some other
\* message carrying components of the same bot
PostedID == "m1"
OtherID == "m2"
NoMessage == "nil"
NoID == ""

UserIDs == {"222", "999"}
CustomIDs == {buttonApproveID, buttonDenyID, "psd_other"}
TimeoutValues == (-1) .. MaxTimeout

\* inbound InteractionCreate events: component interactions on a message,
\* and one interaction of another type (no message attached)
Events ==
    [type : {"MessageComponent"}, msg : {PostedID, OtherID},
     user : UserIDs, customID : CustomIDs]
    \cup [type : {"ApplicationCommand"}, msg : {NoMessage},
          user : {"222"}, customID : {buttonApproveID}]

\* the timeouts of the end-to-end scenarios: no --timeout or --timeout 5,
\* timeout_seconds 2 in the config file
ScenarioFlags == {0, 5}
ScenarioConfigs == {2}

\* longest standard input the truncation is checked for
MaxStdin == 4

\* "Discord message limit is 2000 chars"
discordMessageLimit == 2000
\* len("\n**Stdin:**\n```\n\n```")
stdinWrapperLen == 20
\* the space kept back for the rest of the message
stdinReserve == 50

\* len(requestContent) for which the budget is exactly m bytes
BaseForBudget(m) == discordMessageLimit - stdinWrapperLen - stdinReserve - m

\* request texts leaving a budget of MaxStdin + 1 bytes down to none at all
BaseLens == BaseForBudget(MaxStdin + 1) .. BaseForBudget(-2)

\* the runs of the whole program: three bytes on stdin, a budget of one
ScenarioBases == {BaseForBudget(1)}
ScenarioLens == {3}

(* ------------------------------- state --------------------------------- *)

VARIABLES
    pcMain,        \* position of the main goroutine
    showStdin,     \* --show-stdin
    timeoutFlag,   \* --timeout
    cfgTimeout,    \* timeout_seconds as written in the config file
    timeoutSec,    \* effective timeout
    baseLen,       \* len(requestContent) before the stdin block is added
    stdinLen,      \* number of bytes waiting on standard input
    stdinRead,     \* standard input has been consumed by io.ReadAll
    stdinDisplay,  \* the stdin block of the request: bytes shown, marker
    connOpen,      \* the websocket connection is open (dg.Open .. dg.Close)
    posted,        \* ChannelMessageSendComplex has returned a message
    requestMsgID,  \* captured variable read by the handler
    resultCh,      \* chan ApprovalResult, capacity 1
    inflight,      \* handler goroutines between the filter and the send
    timer,         \* "off", "armed", "fired" (ctx.Done() closed)
    notified,      \* signal.Notify(sigCh, ...) has been called
    sigCh,         \* chan os.Signal, capacity 1
    interrupted,   \* history: an interrupt has been delivered
    result,        \* main's `result` variable
    selected,      \* the select case taken: "none","resultCh","ctxDone","sigCh"
    edits,         \* status markers passed to ChannelMessageEditComplex
    msgStatus,     \* status marker the message displays
    execd,         \* "none", "child" (os/exec), "replaced" (syscall.Exec)
    exitCode,      \* the code given to os.Exit (read when pcMain = "exited")
    ending,        \* history: the statement that ended main, the child's end
    first,         \* history: first source to occur after the post
    lastClass,     \* history: what the last event the handler ran on was
    lastVerdict,   \* history: what the handler did with it
    okApprove,     \* history: an approve by an approver on the request passed
    authDelivered  \* history: an approver's approve/deny on the request arrived

vars == <<pcMain, showStdin, timeoutFlag, cfgTimeout, timeoutSec, baseLen,
          stdinLen, stdinRead, stdinDisplay, connOpen, posted, requestMsgID, resultCh, inflight, timer, notified,
          sigCh, interrupted, result, selected, edits, msgStatus, execd, exitCode,
          ending, first, lastClass, lastVerdict, okApprove, authDelivered>>

inputVars == <<showStdin, timeoutFlag, cfgTimeout, baseLen, stdinLen>>
histVars == <<first, lastClass, lastVerdict, okApprove, authDelivered>>
waitVars == <<resultCh, inflight, timer, notified, sigCh, result, selected>>
exitVars == <<exitCode, ending>>
outVars == <<edits, msgStatus, execd, exitVars>>

NoStatus == [kind |-> "none", secs |-> 0]
NoDisplay == [bytes |-> <<>>, marked |-> FALSE, cut |-> 0]
NoEnding == [why |-> "none", n |-> 0]
Marker(kind, secs) == [kind |-> kind, secs |-> secs]

\* nothing posted, nothing received, nothing decided, nothing run
Quiet ==
    /\ requestMsgID = NoID
    /\ resultCh = <<>>
    /\ inflight = [v \in {ApprovalApproved, ApprovalDenied} |-> 0]
    /\ timer = "off"
    /\ notified = FALSE
    /\ sigCh = 0
    /\ interrupted = FALSE
    /\ result = ApprovalPending
    /\ selected = "none"
    /\ edits = <<>>
    /\ msgStatus = NoStatus
    /\ execd = "none"
    /\ exitCode = 0
    /\ ending = NoEnding
    /\ first = "none"
    /\ lastClass = "none"
    /\ lastVerdict = "none"
    /\ okApprove = FALSE
    /\ authDelivered = FALSE

\* the state at process start, for --timeout in flags and timeout_seconds in cfgs
InitWith(flags, cfgs) ==
    /\ pcMain = "args"
    /\ showStdin \in BOOLEAN
    /\ timeoutFlag \in flags
    /\ cfgTimeout \in cfgs
    /\ timeoutSec = 0
    /\ baseLen \in ScenarioBases
    /\ stdinLen \in ScenarioLens
    /\ stdinRead = FALSE
    /\ stdinDisplay = NoDisplay
    /\ connOpen = FALSE
    /\ posted = FALSE
    /\ Quiet

Init == InitWith(ScenarioFlags, ScenarioConfigs)

\* every combination of override and configured value, for the setup steps
InitSetup == InitWith(TimeoutValues, TimeoutValues)

\* the process exists: its goroutines run and signals reach it
Alive == pcMain \notin {"exited", "killed", "replaced"}

\* os.Exit(code), from the statement named by why
Exit(code, why) ==
    /\ pcMain' = "exited"
    /\ exitCode' = code
    /\ ending' = [why |-> why, n |-> 0]

(* ------------------------------- setup --------------------------------- *)

\* mutant: usage errors end with the flag package's status 2
MainArgsExitTwo ==
    /\ pcMain = "args"
    /\ \E cmdGiven \in BOOLEAN, channelGiven \in BOOLEAN :
          IF ~cmdGiven THEN Exit(2, "no_command")
          ELSE IF ~channelGiven THEN Exit(2, "no_channel")
          ELSE pcMain' = "stdin" /\ UNCHANGED exitVars
    /\ UNCHANGED <<inputVars, histVars, waitVars, timeoutSec, stdinRead, stdinDisplay,
                   connOpen, posted, requestMsgID, interrupted, edits, msgStatus,
                   execd>>

\* flag.Parse, then the command and --channel checks
MainArgs ==
    /\ pcMain = "args"
    /\ \E cmdGiven \in BOOLEAN, channelGiven \in BOOLEAN :
          IF ~cmdGiven THEN Exit(1, "no_command")
          ELSE IF ~channelGiven THEN Exit(1, "no_channel")
          ELSE pcMain' = "stdin" /\ UNCHANGED exitVars
    /\ UNCHANGED <<inputVars, histVars, waitVars, timeoutSec, stdinRead, stdinDisplay, connOpen,
                   posted, requestMsgID, interrupted, edits, msgStatus, execd>>

\* mutant: standard input is left for later, nothing is read here
MainStdinSkip ==
    /\ pcMain = "stdin"
    /\ pcMain' = "config"
    /\ UNCHANGED <<inputVars, histVars, waitVars, outVars, timeoutSec, stdinRead,
                   stdinDisplay, connOpen, posted, requestMsgID, interrupted>>

\* io.ReadAll(os.Stdin) when --show-stdin is set
MainStdin ==
    /\ pcMain = "stdin"
    /\ IF showStdin
       THEN \E readOk \in BOOLEAN :
               /\ stdinRead' = TRUE
               /\ IF readOk THEN pcMain' = "config" /\ UNCHANGED exitVars
                            ELSE Exit(1, "stdin_error")
       ELSE pcMain' = "config" /\ UNCHANGED <<stdinRead, exitVars>>
    /\ UNCHANGED <<inputVars, stdinDisplay, histVars, waitVars, timeoutSec, connOpen,
                   posted, requestMsgID, interrupted, edits, msgStatus, execd>>

\* mutant: only a negative timeout_seconds falls back to the default
loadConfigTimeoutNeg(c) == IF c < 0 THEN defaultTimeout ELSE c

\* loadConfig: the TimeoutSeconds it returns for a readable, complete file
loadConfigTimeout(c) == IF c <= 0 THEN defaultTimeout ELSE c

\* timeoutSec := config.TimeoutSeconds; if *timeout > 0 { timeoutSec = *timeout }
EffectiveTimeout(o, c) ==
    IF o > 0 THEN o ELSE loadConfigTimeout(c)

ConfigErrors == {"unreadable", "unparsable", "no_token", "no_approvers"}

\* loadConfig(configPath) and the timeout resolution
MainConfig ==
    /\ pcMain = "config"
    /\ \E outcome \in {"ok"} \cup ConfigErrors :
          IF outcome = "ok"
          THEN /\ timeoutSec' = EffectiveTimeout(timeoutFlag, cfgTimeout)
               /\ pcMain' = "session"
               /\ UNCHANGED exitVars
          ELSE Exit(1, outcome) /\ UNCHANGED timeoutSec
    /\ UNCHANGED <<inputVars, histVars, waitVars, stdinRead, stdinDisplay, connOpen,
                   posted, requestMsgID, interrupted, edits, msgStatus, execd>>

\* discordgo.New, AddHandler.  *timeout and the file's timeout_seconds are not
\* read again after line 130: they are reset here (dead-variable reduction).
MainSession ==
    /\ pcMain = "session"
    /\ \E ok \in BOOLEAN :
          IF ok THEN pcMain' = "open" /\ UNCHANGED exitVars
                ELSE Exit(1, "session_error")
    /\ timeoutFlag' = 0
    /\ cfgTimeout' = 0
    /\ UNCHANGED <<showStdin, baseLen, stdinLen, histVars, waitVars, timeoutSec, stdinRead, stdinDisplay, connOpen,
                   posted, requestMsgID, interrupted, edits, msgStatus, execd>>

\* dg.Open()
MainOpen ==
    /\ pcMain = "open"
    /\ \E ok \in BOOLEAN :
          IF ok THEN pcMain' = "build" /\ connOpen' = TRUE /\ UNCHANGED exitVars
                ELSE Exit(1, "open_error") /\ UNCHANGED connOpen
    /\ UNCHANGED <<inputVars, histVars, waitVars, timeoutSec, stdinRead, stdinDisplay,
                   posted, requestMsgID, interrupted, edits, msgStatus, execd>>

\* bytes of the captured input, named by their position
StdinData(len) == [i \in 1 .. len |-> i]

\* mutant: the budget is not clamped at zero
maxStdinDisplayRaw(contentLen) ==
    discordMessageLimit - contentLen - stdinWrapperLen - stdinReserve

\* maxStdinDisplay := 2000 - len(requestContent) - len(wrapper) - 50, at least 0
maxStdinDisplay(contentLen) ==
    LET budget == discordMessageLimit - contentLen - stdinWrapperLen - stdinReserve
    IN  IF budget < 0 THEN 0 ELSE budget

\* stdinDisplay[:max] + "\n... (%d bytes truncated)" when len(stdinDisplay) > max
Truncate(data, max) ==
    IF Len(data) > max
    THEN [bytes |-> SubSeq(data, 1, max), marked |-> TRUE, cut |-> Len(data) - max]
    ELSE [bytes |-> data, marked |-> FALSE, cut |-> 0]

\* requestContent, with the stdin block when --show-stdin is set
MainBuild ==
    /\ pcMain = "build"
    /\ stdinDisplay' = IF showStdin
                       THEN Truncate(StdinData(stdinLen), maxStdinDisplay(baseLen))
                       ELSE NoDisplay
    /\ pcMain' = "post"
    /\ UNCHANGED <<inputVars, histVars, waitVars, outVars, timeoutSec, stdinRead,
                   connOpen, posted, requestMsgID, interrupted>>

\* dg.ChannelMessageSendComplex
MainPost ==
    /\ pcMain = "post"
    /\ \E ok \in BOOLEAN :
          IF ok THEN pcMain' = "assign" /\ posted' = TRUE /\ UNCHANGED exitVars
                ELSE Exit(1, "post_error") /\ UNCHANGED posted
    /\ UNCHANGED <<inputVars, histVars, waitVars, timeoutSec, stdinRead, stdinDisplay, connOpen,
                   requestMsgID, interrupted, edits, msgStatus, execd>>

\* requestMsgID = msg.ID
MainAssign ==
    /\ pcMain = "assign"
    /\ requestMsgID' = PostedID
    /\ pcMain' = "timer"
    /\ UNCHANGED <<inputVars, histVars, waitVars, outVars, timeoutSec, stdinRead, stdinDisplay,
                   connOpen, posted, interrupted>>

\* context.WithTimeout
MainTimer ==
    /\ pcMain = "timer"
    /\ timer' = "armed"
    /\ pcMain' = "notify"
    /\ UNCHANGED <<inputVars, histVars, outVars, timeoutSec, stdinRead, stdinDisplay, connOpen,
                   posted, requestMsgID, interrupted, resultCh, inflight, notified,
                   sigCh, result, selected>>

\* signal.Notify(sigCh, os.Interrupt, syscall.SIGTERM)
MainNotify ==
    /\ pcMain = "notify"
    /\ notified' = TRUE
    /\ pcMain' = "select"
    /\ UNCHANGED <<inputVars, histVars, outVars, timeoutSec, stdinRead, stdinDisplay, connOpen,
                   posted, requestMsgID, interrupted, resultCh, inflight, timer,
                   sigCh, result, selected>>

Setup == MainArgs \/ MainStdin \/ MainConfig \/ MainSession \/ MainOpen
         \/ MainBuild \/ MainPost \/ MainAssign \/ MainTimer \/ MainNotify

(* ----------------------- the interaction handler ----------------------- *)

\* mutant: any identity passes once the list is non-empty
isApproverAny(userID, approverIDs) == Len(approverIDs) > 0

\* for _, id := range approverIDs { if id == userID { return true } }
isApprover(userID, approverIDs) ==
    \E k \in 1 .. Len(approverIDs) : approverIDs[k] = userID

\* i.Type != discordgo.InteractionMessageComponent
IsComponent(e) == e.type = "MessageComponent"

\* mutant: the message id is not compared
OnAnyMessage(e, id) == e.msg # NoMessage

\* not (i.Message == nil || i.Message.ID != requestMsgID)
OnRequestMessage(e, id) == ~(e.msg = NoMessage \/ e.msg # id)

\* mutant: the approver check is left out
HandlerVerdictNoAuth(e, id) ==
    IF ~IsComponent(e) THEN "ignored"
    ELSE IF ~OnRequestMessage(e, id) THEN "ignored"
    ELSE IF e.customID = buttonApproveID THEN "approve"
    ELSE IF e.customID = buttonDenyID THEN "deny"
    ELSE "ignored"

\* the handler's path for event e when it reads id from requestMsgID:
\*   "ignored"  returns without any effect
\*   "notice"   answers the actor with the ephemeral not-authorized notice
\*   "approve", "deny"   goes on to respond and to send on resultCh
\* mutant: the switch on customID has a default that denies
HandlerVerdictDefaultDeny(e, id) ==
    IF ~IsComponent(e) THEN "ignored"
    ELSE IF ~OnRequestMessage(e, id) THEN "ignored"
    ELSE IF ~isApprover(e.user, ApproverIDs) THEN "notice"
    ELSE IF e.customID = buttonApproveID THEN "approve"
    ELSE "deny"

HandlerVerdict(e, id) ==
    IF ~IsComponent(e) THEN "ignored"
    ELSE IF ~OnRequestMessage(e, id) THEN "ignored"
    ELSE IF ~isApprover(e.user, ApproverIDs) THEN "notice"
    ELSE IF e.customID = buttonApproveID THEN "approve"
    ELSE IF e.customID = buttonDenyID THEN "deny"
    ELSE "ignored"

VerdictResult(v) == IF v = "approve" THEN ApprovalApproved ELSE ApprovalDenied

InflightCount == inflight[ApprovalApproved] + inflight[ApprovalDenied]

\* the Approver Identity Set
ApproverSet == {ApproverIDs[k] : k \in 1 .. Len(ApproverIDs)}

\* what the event is, whatever the handler makes of it
EventClass(e, id) ==
    IF e.type # "MessageComponent" THEN "not_component"
    ELSE IF e.msg # id
    THEN (IF e.msg = PostedID
          THEN (IF e.user \in ApproverSet
                   /\ e.customID \in {buttonApproveID, buttonDenyID}
                THEN "early_action" ELSE "early")
          ELSE IF e.user \in ApproverSet
                  /\ e.customID = buttonApproveID
          THEN "wrong_message_approver"
          ELSE "wrong_message")
    ELSE IF e.user \notin ApproverSet
    THEN "stranger"
    ELSE IF e.customID = buttonApproveID THEN "approve"
    ELSE IF e.customID = buttonDenyID THEN "deny"
    ELSE "other_action"

IsAuthorizedAction(e) ==
    /\ e.type = "MessageComponent"
    /\ e.msg = PostedID
    /\ e.user \in ApproverSet
    /\ e.customID \in {buttonApproveID, buttonDenyID}

\* The gateway delivers e and a handler goroutine runs the filter (one read of
\* requestMsgID, racing with main's assignment: it sees the value before or
\* after it).  An accepted event leaves the goroutine before its respond/send.
\* an approver's approve or deny on the request that arrives once the select
\* has been left, with resultCh empty and no handler on its way to it
LateAction(e) ==
    /\ selected # "none"
    /\ resultCh = <<>>
    /\ InflightCount = 0
    /\ HandlerVerdict(e, requestMsgID) \in {"approve", "deny"}

HandleEvent(e) ==
    /\ Alive
    /\ connOpen
    /\ e.msg = PostedID => posted
    /\ LET v == HandlerVerdict(e, requestMsgID) IN
         /\ v \in {"approve", "deny"} => InflightCount < MaxInflight
         /\ inflight' = IF v \in {"approve", "deny"}
                        THEN [inflight EXCEPT ![VerdictResult(v)] = @ + 1]
                        ELSE inflight
         /\ lastClass' = IF LateAction(e) THEN "late_action"
                          ELSE EventClass(e, requestMsgID)
         /\ lastVerdict' = v
         /\ okApprove' = (okApprove \/ (v = "approve" /\ IsAuthorizedAction(e)
                                        /\ e.customID = buttonApproveID))
         /\ authDelivered' = (authDelivered \/ IsAuthorizedAction(e))
    /\ UNCHANGED <<inputVars, outVars, pcMain, timeoutSec, stdinRead, stdinDisplay, connOpen,
                   posted, requestMsgID, resultCh, timer, notified, sigCh,
                   interrupted, result, selected, first>>

\* the three ways the select statement completes
TakeResult(v) ==
    /\ result' = v
    /\ selected' = "resultCh"
    /\ pcMain' = "switch"

\* mutant: the ctx.Done() case leaves result at its zero value
TakeDoneZero ==
    /\ result' = ApprovalPending
    /\ selected' = "ctxDone"
    /\ pcMain' = "switch"

\* case <-ctx.Done(): result = ApprovalTimeout
TakeDone ==
    /\ result' = ApprovalTimeout
    /\ selected' = "ctxDone"
    /\ pcMain' = "switch"

TakeSig ==
    /\ selected' = "sigCh"
    /\ pcMain' = "cancel_edit"
    /\ UNCHANGED result

resultChCap == 1

\* mutant: a full slot is overwritten by the later writer
TrySendOverwrite(ch, v) == IF Len(ch) < resultChCap THEN Append(ch, v) ELSE <<v>>

\* select { case resultCh <- v: default: } on the buffered channel
TrySend(ch, v) == IF Len(ch) < resultChCap THEN Append(ch, v) ELSE ch

\* An accepted handler responds to the interaction and does its non-blocking
\* send.  With main parked in the select the value goes straight to it.
\* mutant: a plain send, `resultCh <- v`, which waits for room or a receiver
HandlerSendBlocking(v) ==
    /\ Alive
    /\ inflight[v] > 0
    /\ pcMain = "parked" \/ Len(resultCh) < resultChCap
    /\ inflight' = [inflight EXCEPT ![v] = @ - 1]
    /\ IF pcMain = "parked"
       THEN TakeResult(v) /\ UNCHANGED resultCh
       ELSE resultCh' = Append(resultCh, v) /\ UNCHANGED <<pcMain, result, selected>>
    /\ first' = IF first = "none" /\ (pcMain = "parked" \/ resultCh' # resultCh)
                THEN (IF v = ApprovalApproved THEN "approve" ELSE "deny")
                ELSE first
    /\ UNCHANGED <<inputVars, outVars, timeoutSec, stdinRead, stdinDisplay, connOpen, posted,
                   requestMsgID, timer, notified, sigCh, interrupted,
                   lastClass, lastVerdict, okApprove, authDelivered>>

HandlerSend(v) ==
    /\ Alive
    /\ inflight[v] > 0
    /\ inflight' = [inflight EXCEPT ![v] = @ - 1]
    /\ IF pcMain = "parked"
       THEN TakeResult(v) /\ UNCHANGED resultCh
       ELSE resultCh' = TrySend(resultCh, v) /\ UNCHANGED <<pcMain, result, selected>>
    /\ first' = IF first = "none" /\ (pcMain = "parked" \/ resultCh' # resultCh)
                THEN (IF v = ApprovalApproved THEN "approve" ELSE "deny")
                ELSE first
    /\ UNCHANGED <<inputVars, outVars, timeoutSec, stdinRead, stdinDisplay, connOpen, posted,
                   requestMsgID, timer, notified, sigCh, interrupted,
                   lastClass, lastVerdict, okApprove, authDelivered>>

(* ------------------------- timer and interrupts ------------------------- *)

\* mutant: the deadline passes without waking a main parked in the select
TimerFireNoWake ==
    /\ Alive
    /\ timer = "armed"
    /\ timer' = "fired"
    /\ first' = IF first = "none" THEN "timer" ELSE first
    /\ UNCHANGED <<inputVars, outVars, pcMain, result, selected,
                   timeoutSec, stdinRead, stdinDisplay, connOpen, posted,
                   requestMsgID, resultCh, inflight, notified, sigCh, interrupted,
                   lastClass, lastVerdict, okApprove, authDelivered>>

\* the deadline of context.WithTimeout passes: ctx.Done() is closed
TimerFire ==
    /\ Alive
    /\ timer = "armed"
    /\ timer' = "fired"
    /\ IF pcMain = "parked" THEN TakeDone ELSE UNCHANGED <<pcMain, result, selected>>
    /\ first' = IF first = "none" THEN "timer" ELSE first
    /\ UNCHANGED <<inputVars, outVars, timeoutSec, stdinRead, stdinDisplay, connOpen, posted,
                   requestMsgID, resultCh, inflight, notified, sigCh, interrupted,
                   lastClass, lastVerdict, okApprove, authDelivered>>

\* SIGINT or SIGTERM reaches the process.  Before signal.Notify the default
\* disposition ends it; afterwards the runtime does a non-blocking send on sigCh.
Interrupt ==
    /\ Alive
    /\ interrupted' = TRUE
    /\ IF ~notified
       THEN /\ pcMain' = "killed"
            /\ UNCHANGED <<sigCh, result, selected, exitVars>>
       ELSE IF pcMain = "parked"
       THEN TakeSig /\ UNCHANGED <<sigCh, exitVars>>
       ELSE /\ sigCh' = 1
            /\ UNCHANGED <<pcMain, result, selected, exitVars>>
    /\ first' = IF first = "none" /\ posted THEN "signal" ELSE first
    /\ UNCHANGED <<inputVars, timeoutSec, stdinRead, stdinDisplay, connOpen, posted,
                   requestMsgID, resultCh, inflight, timer, notified,
                   edits, msgStatus, execd,
                   lastClass, lastVerdict, okApprove, authDelivered>>

(* ------------------------------ the wait -------------------------------- *)

\* the cases of the select that can proceed
ReadyCases ==
    (IF Len(resultCh) > 0 THEN {"resultCh"} ELSE {})
    \cup (IF timer = "fired" THEN {"ctxDone"} ELSE {})
    \cup (IF sigCh > 0 THEN {"sigCh"} ELSE {})

\* main reaches the select: one ready case is chosen (any of them when several
\* are ready); with none ready main parks on the three channels
MainSelect ==
    /\ pcMain = "select"
    /\ IF ReadyCases = {}
       THEN pcMain' = "parked" /\ UNCHANGED <<resultCh, sigCh, result, selected>>
       ELSE \E c \in ReadyCases :
              CASE c = "resultCh" ->
                     TakeResult(Head(resultCh)) /\ resultCh' = Tail(resultCh)
                     /\ UNCHANGED sigCh
                [] c = "ctxDone" -> TakeDone /\ UNCHANGED <<resultCh, sigCh>>
                [] c = "sigCh" -> TakeSig /\ sigCh' = 0 /\ UNCHANGED resultCh
    /\ UNCHANGED <<inputVars, histVars, outVars, timeoutSec, stdinRead, stdinDisplay, connOpen,
                   posted, requestMsgID, inflight, timer, notified, interrupted>>

(* -------------------------- outcome execution --------------------------- *)

\* dg.ChannelMessageEditComplex with the status line appended; its result is
\* not looked at
Edit(status) ==
    /\ edits' = Append(edits, status)
    /\ \E ok \in BOOLEAN : msgStatus' = IF ok THEN status ELSE msgStatus

\* case <-sigCh: edit the message, then os.Exit(130)
MainCancelEdit ==
    /\ pcMain = "cancel_edit"
    /\ Edit(Marker("Cancelled", 0))
    /\ pcMain' = "cancel_exit"
    /\ UNCHANGED <<inputVars, histVars, waitVars, timeoutSec, stdinRead, stdinDisplay, connOpen,
                   posted, requestMsgID, interrupted, execd, exitVars>>

\* mutant: the interrupt branch exits like the other failures
MainCancelExitOne ==
    /\ pcMain = "cancel_exit"
    /\ Exit(1, "interrupt")
    /\ UNCHANGED <<inputVars, histVars, waitVars, timeoutSec, stdinRead, stdinDisplay, connOpen,
                   posted, requestMsgID, interrupted, edits, msgStatus, execd>>

MainCancelExit ==
    /\ pcMain = "cancel_exit"
    /\ Exit(130, "interrupt")
    /\ UNCHANGED <<inputVars, histVars, waitVars, timeoutSec, stdinRead, stdinDisplay, connOpen,
                   posted, requestMsgID, interrupted, edits, msgStatus, execd>>

\* switch result
MainSwitch ==
    /\ pcMain = "switch"
    /\ CASE result = ApprovalApproved -> pcMain' = "approved_edit" /\ UNCHANGED exitVars
         [] result = ApprovalDenied -> pcMain' = "denied_edit" /\ UNCHANGED exitVars
         [] result = ApprovalTimeout -> pcMain' = "timeout_edit" /\ UNCHANGED exitVars
         [] OTHER -> Exit(1, "unknown_result")
    /\ UNCHANGED <<inputVars, histVars, waitVars, timeoutSec, stdinRead, stdinDisplay, connOpen,
                   posted, requestMsgID, interrupted, edits, msgStatus, execd>>

\* mutant: the denial branch shows the approval text
MainDeniedEditApproved ==
    /\ pcMain = "denied_edit"
    /\ Edit(Marker("Approved", 0))
    /\ pcMain' = "denied_exit"
    /\ UNCHANGED <<inputVars, histVars, waitVars, timeoutSec, stdinRead, stdinDisplay,
                   connOpen, posted, requestMsgID, interrupted, execd, exitVars>>

\* case ApprovalDenied: disableButtons
MainDeniedEdit ==
    /\ pcMain = "denied_edit"
    /\ Edit(Marker("Denied", 0))
    /\ pcMain' = "denied_exit"
    /\ UNCHANGED <<inputVars, histVars, waitVars, timeoutSec, stdinRead, stdinDisplay, connOpen,
                   posted, requestMsgID, interrupted, execd, exitVars>>

MainDeniedExit ==
    /\ pcMain = "denied_exit"
    /\ Exit(1, "denied")
    /\ UNCHANGED <<inputVars, histVars, waitVars, timeoutSec, stdinRead, stdinDisplay, connOpen,
                   posted, requestMsgID, interrupted, edits, msgStatus, execd>>

\* case ApprovalTimeout: disableButtons with the timeout value
MainTimeoutEdit ==
    /\ pcMain = "timeout_edit"
    /\ Edit(Marker("TimedOut", timeoutSec))
    /\ pcMain' = "timeout_exit"
    /\ UNCHANGED <<inputVars, histVars, waitVars, timeoutSec, stdinRead, stdinDisplay, connOpen,
                   posted, requestMsgID, interrupted, execd, exitVars>>

MainTimeoutExit ==
    /\ pcMain = "timeout_exit"
    /\ Exit(1, "timeout")
    /\ UNCHANGED <<inputVars, histVars, waitVars, timeoutSec, stdinRead, stdinDisplay, connOpen,
                   posted, requestMsgID, interrupted, edits, msgStatus, execd>>

\* case ApprovalApproved: disableButtons
MainApprovedEdit ==
    /\ pcMain = "approved_edit"
    /\ Edit(Marker("Approved", 0))
    /\ pcMain' = "close"
    /\ UNCHANGED <<inputVars, histVars, waitVars, timeoutSec, stdinRead, stdinDisplay, connOpen,
                   posted, requestMsgID, interrupted, execd, exitVars>>

\* mutant: the connection is left to the deferred Close
MainCloseSkip ==
    /\ pcMain = "close"
    /\ pcMain' = "run"
    /\ UNCHANGED <<inputVars, histVars, waitVars, outVars, timeoutSec, stdinRead, stdinDisplay,
                   connOpen, posted, requestMsgID, interrupted>>

\* dg.Close() before the command runs
MainClose ==
    /\ pcMain = "close"
    /\ connOpen' = FALSE
    /\ pcMain' = "run"
    /\ UNCHANGED <<inputVars, histVars, waitVars, outVars, timeoutSec, stdinRead, stdinDisplay,
                   posted, requestMsgID, interrupted>>

\* the ways a started child ends: exit(n), or killed by signal n
ChildEnds == [kind : {"exited"}, n : {0, 1, 3}]
             \cup [kind : {"signaled"}, n : {9, 15}]

\* exitErr.ExitCode(): the exit code, -1 for a child ended by a signal
ExitCodeOf(end) == IF end.kind = "exited" THEN end.n ELSE -1

\* the command: cmd.Run() with the buffered stdin, or LookPath + syscall.Exec
MainRun ==
    /\ pcMain = "run"
    /\ \E started \in BOOLEAN :
          IF ~started
          THEN Exit(1, "not_started") /\ UNCHANGED execd
          ELSE IF showStdin
          THEN pcMain' = "child" /\ execd' = "child" /\ UNCHANGED exitVars
          ELSE pcMain' = "replaced" /\ execd' = "replaced" /\ UNCHANGED exitVars
    /\ UNCHANGED <<inputVars, histVars, waitVars, timeoutSec, stdinRead, stdinDisplay, connOpen,
                   posted, requestMsgID, interrupted, edits, msgStatus>>

\* cmd.Run() returns: os.Exit(exitErr.ExitCode()), or main returns (status 0)
MainChildDone ==
    /\ pcMain = "child"
    /\ \E end \in ChildEnds :
          /\ pcMain' = "exited"
          /\ exitCode' = ExitCodeOf(end)
          /\ ending' = [why |-> end.kind, n |-> end.n]
    /\ UNCHANGED <<inputVars, histVars, waitVars, timeoutSec, stdinRead, stdinDisplay, connOpen,
                   posted, requestMsgID, interrupted, edits, msgStatus, execd>>

Outcome == MainCancelEdit \/ MainCancelExit \/ MainSwitch \/ MainDeniedEdit
           \/ MainDeniedExit \/ MainTimeoutEdit \/ MainTimeoutExit
           \/ MainApprovedEdit \/ MainClose \/ MainRun \/ MainChildDone

MainStep == Setup \/ MainSelect \/ Outcome

Gateway == \E e \in Events : HandleEvent(e)

Handlers == \E v \in {ApprovalApproved, ApprovalDenied} : HandlerSend(v)

Next == MainStep \/ Gateway \/ Handlers \/ TimerFire \/ Interrupt

Spec == Init /\ [][Next]_vars

\* the setup steps alone, over every combination of the two timeout inputs
SetupNext == MainArgs \/ MainStdin \/ MainConfig \/ MainSession

SetupSpec == InitSetup /\ [][SetupNext]_vars

\* the main goroutine keeps running, handler goroutines that passed the filter
\* finish, and the timer of context.WithTimeout fires
\* the state in which the request text is built, for every length of the rest
\* of the text and of the captured input
InitBuild ==
    /\ pcMain = "build"
    /\ showStdin \in BOOLEAN
    /\ timeoutFlag = 0
    /\ cfgTimeout = 0
    /\ timeoutSec = defaultTimeout
    /\ baseLen \in BaseLens
    /\ stdinLen \in 0 .. MaxStdin
    /\ stdinRead = showStdin
    /\ stdinDisplay = NoDisplay
    /\ connOpen = TRUE
    /\ posted = FALSE
    /\ Quiet

\* the building of the request text alone
BuildSpec == InitBuild /\ [][MainBuild]_vars

FairSpec == Spec /\ WF_vars(MainStep) /\ WF_vars(Handlers) /\ WF_vars(TimerFire)

(* ------------------------------ Decision -------------------------------- *)

\* the Decision of the wait: the select case taken and, for the first two
\* cases, the value main holds in `result`
Decision ==
    CASE selected = "none" -> "Pending"
      [] selected = "sigCh" -> "Cancelled"
      [] result = ApprovalApproved -> "Approved"
      [] result = ApprovalDenied -> "Denied"
      [] result = ApprovalTimeout -> "TimedOut"
      [] OTHER -> "Unknown"

ResolvedVars == <<resultCh, inflight, result, selected, pcMain>>

(* ------------------------------- claims --------------------------------- *)

\* C1: the command is executed at most once, only after the handler accepted
\* an approve from an approver on the posted request and the Decision is
\* Approved; never after Denied, TimedOut or Cancelled, nor on a setup error.
C1_ExecOnlyOnApprove ==
    /\ [](execd # "none" => (okApprove /\ Decision = "Approved"))
    /\ [](Decision \in {"Denied", "TimedOut", "Cancelled"} => execd = "none")
    /\ []((pcMain = "exited" /\ selected = "none") => execd = "none")
    /\ [][execd # "none" => execd' = execd]_vars

C1_Witness == execd = "replaced" /\ okApprove /\ Decision = "Approved"

\* C2: first writer wins.  A value in the slot is never replaced by a later
\* writer and is what main receives; when the first write was an approve and
\* main took its result from the slot, the Decision is Approved; a resolved
\* Decision, the started command and the exit status never change afterwards.
C2_FirstWriterWins ==
    /\ []((first = "approve" /\ selected = "resultCh") => Decision = "Approved")
    /\ [][Len(resultCh) = 1 =>
            \/ resultCh' = resultCh
            \/ /\ resultCh' = <<>>
               /\ selected = "none" /\ selected' = "resultCh"
               /\ result' = Head(resultCh)]_vars
    /\ [][selected # "none" => (selected' = selected /\ result' = result)]_vars
    /\ [][execd # "none" => execd' = execd]_vars
    /\ [][~Alive => (pcMain' = pcMain /\ exitCode' = exitCode)]_vars

\* an approve resolved the wait and a later deny reached the channel
C2_Witness ==
    /\ first = "approve" /\ Decision = "Approved"
    /\ lastVerdict = "deny" /\ resultCh = <<ApprovalDenied>>
    /\ execd # "none"

DecisionOf(src) ==
    CASE src = "approve" -> "Approved"
      [] src = "deny" -> "Denied"
      [] src = "timer" -> "TimedOut"
      [] src = "signal" -> "Cancelled"
      [] OTHER -> "Pending"

\* C3: the Decision is the one of the first source to occur: a value written
\* to the slot before the deadline and before any interrupt gives Approved or
\* Denied, and a deadline or interrupt that came first is not overridden.
C3_FirstSourceDecides ==
    /\ (first \in {"approve", "deny"} /\ Decision # "Pending") =>
          Decision = DecisionOf(first)
    /\ (first \in {"timer", "signal"} /\ Decision # "Pending") =>
          Decision \notin {"Approved", "Denied"}

\* C4: an event whose message id differs from the value of requestMsgID
\* (unassigned included) is rejected whoever sent it and whatever its action:
\* nothing is sent, no handler goes on, the Decision is unchanged.
C4_MismatchRejected ==
    [][\A e \in Events :
         (lastClass' = EventClass(e, requestMsgID)
            /\ e.msg # requestMsgID /\ HandleEvent(e)) =>
            (lastVerdict' = "ignored" /\ UNCHANGED ResolvedVars)]_vars

C4_Witness ==
    /\ requestMsgID = PostedID /\ selected = "none"
    /\ lastClass = "wrong_message_approver"
    /\ lastVerdict = "ignored"

\* C5: any action on the request message by an actor outside the approver set
\* is rejected: the slot is not written and the Decision stays as it was.
C5_StrangerRejected ==
    [][\A e \in Events :
         (lastClass' = "stranger" /\ e.type = "MessageComponent"
            /\ e.msg = requestMsgID /\ e.user \notin ApproverSet
            /\ HandleEvent(e)) =>
            (lastVerdict' \notin {"approve", "deny"} /\ UNCHANGED ResolvedVars)]_vars

C5_Witness ==
    /\ lastClass = "stranger"
    /\ lastVerdict = "notice"
    /\ Decision = "Pending" /\ resultCh = <<>> /\ InflightCount = 0

AfterEdit(d) ==
    CASE d = "Cancelled" -> "cancel_exit"
      [] d = "Denied" -> "denied_exit"
      [] d = "TimedOut" -> "timeout_exit"
      [] OTHER -> "close"

\* C6: the exit code follows from the Decision alone (Denied 1, TimedOut 1,
\* Cancelled 130), whether the status edit succeeded or not, and the step
\* after the edit is the Decision's.
C6_ExitByDecision ==
    /\ []((pcMain = "exited" /\ Decision = "Denied") => exitCode = 1)
    /\ []((pcMain = "exited" /\ Decision = "TimedOut") => exitCode = 1)
    /\ []((pcMain = "exited" /\ Decision = "Cancelled") => exitCode = 130)
    /\ [][Len(edits') > Len(edits) => pcMain' = AfterEdit(Decision)]_vars

\* Cancelled with a failed edit
C6_Witness ==
    /\ pcMain = "exited" /\ Decision = "Cancelled"
    /\ Len(edits) = 1 /\ msgStatus = NoStatus
    /\ exitCode = 130

\* C7: an interrupt delivered after the post and before any approval event
\* gives Cancelled: the cancellation edit is made and the process exits 130.
C7_InterruptCancels ==
    (~Alive /\ posted /\ interrupted /\ ~authDelivered /\ timer # "fired") =>
        /\ Decision = "Cancelled"
        /\ edits = <<Marker("Cancelled", 0)>>
        /\ exitCode = 130

\* C8: with no approver's event and no interrupt the wait does not stay
\* Pending: it resolves as TimedOut, the edit carries timeoutSec, exit code 1.
C8_TimesOut ==
    /\ [](posted => <>(selected # "none" \/ ~Alive))
    /\ []((~Alive /\ posted /\ ~authDelivered /\ ~interrupted) =>
            /\ Decision = "TimedOut"
            /\ edits = <<Marker("TimedOut", timeoutSec)>>
            /\ exitCode = 1)

C8_Witness ==
    /\ ~Alive /\ posted /\ ~authDelivered /\ ~interrupted
    /\ Decision = "TimedOut" /\ exitCode = 1
    /\ lastVerdict = "notice"

\* C9: effective timeout = override if > 0, else the config value if > 0,
\* else 300; it is positive from then on.
C9_TimeoutPrecedence ==
    /\ pcMain = "session" =>
          timeoutSec = (IF timeoutFlag > 0 THEN timeoutFlag
                        ELSE IF cfgTimeout > 0 THEN cfgTimeout ELSE 300)
    /\ (pcMain = "session" \/ connOpen \/ posted) => timeoutSec > 0

C9_Witness ==
    pcMain = "session" /\ timeoutFlag = 0 /\ cfgTimeout = 0 /\ timeoutSec = 300

\* C10: on Approved the status edit comes first, then the connection is
\* closed, then the command runs: the command never runs with the connection
\* open or before the edit was attempted.
C10_ApprovedOrder ==
    /\ (pcMain \in {"run", "child", "replaced"} \/ execd # "none") =>
          (~connOpen /\ edits = <<Marker("Approved", 0)>>)
    /\ (posted /\ ~connOpen) => edits = <<Marker("Approved", 0)>>

C10_Witness ==
    execd = "child" /\ ~connOpen /\ edits = <<Marker("Approved", 0)>>

\* the status the parent of the tool sees for os.Exit(exitCode)
ExitStatus == exitCode % 256

\* the status a shell reports for a child that ended this way
StatusOf(end) == IF end.why = "exited" THEN end.n ELSE 128 + end.n

\* C11: with --show-stdin, an approved run ends with the child's own status
\* however the started child ended (exit 0, exit n, killed by a signal), and
\* with 1 when the child could not be started.
C11_ChildStatusVerbatim ==
    /\ (pcMain = "exited" /\ ending.why \in {"exited", "signaled"}) =>
          ExitStatus = StatusOf(ending)
    /\ (pcMain = "exited" /\ ending.why = "not_started") => exitCode = 1

\* C12: with --show-stdin, standard input has been read to the end before
\* the connection is opened and before the request is posted; without it the
\* tool never reads standard input.
C12_StdinBeforeNetwork ==
    /\ (showStdin /\ (pcMain = "open" \/ connOpen \/ posted)) => stdinRead
    /\ ~showStdin => ~stdinRead

C12_Witness ==
    showStdin /\ stdinRead /\ connOpen /\ posted /\ stdinDisplay.marked

\* the exits for a usage error or a configuration error
SetupErrors == {"no_command", "no_channel"} \cup ConfigErrors

\* C13: a usage error (no command, empty --channel) or a configuration error
\* (unreadable or unparsable file, empty token, empty approver list) ends the
\* process with code 1 before any network activity: no session was opened,
\* no request posted, no wait entered.
C13_SetupErrorsExitOne ==
    ending.why \in SetupErrors =>
        /\ pcMain = "exited" /\ exitCode = 1
        /\ ~connOpen /\ ~posted /\ requestMsgID = NoID
        /\ timer = "off" /\ ~notified /\ selected = "none"
        /\ edits = <<>> /\ execd = "none"

C13_Witness ==
    ending.why = "no_channel" /\ pcMain = "exited" /\ exitCode = 1 /\ ~connOpen

\* C14: once the wait is resolved (event, timer or interrupt), an authorized
\* event arriving afterwards is not buffered: resultCh holds no value written
\* by a handler that started after the resolution.
C14_NoLateBuffering ==
    lastClass = "late_action" => resultCh = <<>>

\* C15: with B = len(requestContent) and L = len(stdin), the budget is
\* M = max(0, 2000 - B - len(wrapper) - 50); if L <= M the input is shown whole
\* without a marker; if L > M exactly its first M bytes are shown, followed by
\* a marker stating N = L - M; bytes shown + N = L.
StatedBudget ==
    IF BaseForBudget(0) - baseLen > 0 THEN BaseForBudget(0) - baseLen ELSE 0

C15_Truncation ==
    (pcMain = "post" /\ showStdin) =>
        /\ stdinLen <= StatedBudget =>
              /\ stdinDisplay.bytes = StdinData(stdinLen)
              /\ ~stdinDisplay.marked
        /\ stdinLen > StatedBudget =>
              /\ stdinDisplay.bytes = SubSeq(StdinData(stdinLen), 1, StatedBudget)
              /\ Len(stdinDisplay.bytes) = StatedBudget
              /\ stdinDisplay.marked
              /\ stdinDisplay.cut = stdinLen - StatedBudget
        /\ Len(stdinDisplay.bytes) + stdinDisplay.cut = stdinLen

C15_Witness ==
    /\ pcMain = "post" /\ showStdin
    /\ stdinLen = 3 /\ Len(stdinDisplay.bytes) = 2
    /\ stdinDisplay.marked /\ stdinDisplay.cut = 1

\* C16: no qualifying event is lost while Pending: an approver's approve or
\* deny on the posted request, delivered after the post returned, is accepted;
\* in particular one handled before the handler knows the request id is not
\* rejected.
C16_NoEventLost ==
    lastClass = "early_action" => lastVerdict \in {"approve", "deny"}

\* C17: an approver's event on the live request whose customID is neither
\* approve nor deny is rejected silently: no interaction response is sent,
\* nothing is written to the slot and the Decision stays as it was.
C17_OtherActionIgnored ==
    [][\A e \in Events :
         (lastClass' = "other_action" /\ e.type = "MessageComponent"
            /\ requestMsgID = PostedID /\ e.msg = requestMsgID
            /\ e.user \in ApproverSet
            /\ e.customID \notin {buttonApproveID, buttonDenyID}
            /\ HandleEvent(e)) =>
            (lastVerdict' = "ignored" /\ UNCHANGED ResolvedVars)]_vars

C17_Witness ==
    /\ lastClass = "other_action"
    /\ lastVerdict = "ignored"
    /\ Decision = "Pending" /\ resultCh = <<>> /\ InflightCount = 0
    /\ pcMain = "parked"

\* C18: the request message is edited at most once, only after the Decision
\* is resolved, and with the marker of that Decision; it is never edited while
\* the Decision is Pending.
C18_OneMatchingEdit ==
    /\ Len(edits) <= 1
    /\ edits # <<>> => (Decision # "Pending" /\ edits[1].kind = Decision)
    /\ msgStatus # NoStatus => (edits # <<>> /\ msgStatus = edits[1])

C18_Witness ==
    /\ edits = <<Marker("Denied", 0)>> /\ msgStatus = Marker("Denied", 0)
    /\ Decision = "Denied" /\ pcMain = "exited"

\* C19: the handler never blocks on the slot: whatever the state of the wait
\* (slot empty or full, value received, main gone past the select), a handler
\* that has passed the filter can complete its send; the slot never holds
\* more than one value.
C19_HandlerNeverBlocks ==
    /\ Len(resultCh) <= resultChCap
    /\ \A v \in {ApprovalApproved, ApprovalDenied} :
          (Alive /\ inflight[v] > 0) => ENABLED HandlerSend(v)

C19_Witness ==
    /\ resultCh = <<ApprovalApproved>> /\ selected = "none"
    /\ lastVerdict = "deny" /\ InflightCount = 0

\* C20: the value main switches on after the wait is Approved, Denied or
\* Timeout; Pending and Error are never written to the slot, and the
\* "Unknown error" default branch is never taken.
C20_ResultClosed ==
    /\ \A k \in 1 .. Len(resultCh) :
          resultCh[k] \in {ApprovalApproved, ApprovalDenied}
    /\ selected \in {"resultCh", "ctxDone"} =>
          result \in {ApprovalApproved, ApprovalDenied, ApprovalTimeout}
    /\ result \notin {ApprovalError}
    /\ ending.why # "unknown_result"

C20_Witness ==
    /\ pcMain = "switch" /\ selected = "ctxDone" /\ result = ApprovalTimeout
    /\ resultCh = <<ApprovalDenied>>

====
